---- MODULE Spec2Model ----
(***************************************************************************)
(* Model of the tabular filter of cllm_data_curation:                      *)
(*   thestack_curation/curation_utils.py   filter_parquet_file,            *)
(*                                         open_pq_as_df,                  *)
(*                                         test_source_code_compatible     *)
(*   thestack_curation/curation_configs.py the three presets               *)
(*                                                                         *)
(* A DataFrame is a sequence of records; the field idx is the row's index  *)
(* label (a RangeIndex, 0-based).  A boolean Series is a function from     *)
(* index labels to BOOLEAN.  alphanum_frac and the two alphanum thresholds *)
(* are counted in ten-thousandths (0.975 is 9750), ave_ll in whole         *)
(* characters, file_size in bytes.                                         *)
(***************************************************************************)
EXTENDS Integers, Sequences, FiniteSets, TLC

VARIABLES pc, cfg, is_slim, pq_file, _df, filter_flag, reject_df,
          dest_pq, rejects_pq, exc,
          columns, loads, run,
          cmp_pc, cmp_table, cmp_out,
          output_dir, pq_paths, derived,
          m_pc, _args, tree, meta_df, filtered_meta_df, results, writes, csv,
          repo_names, seg_k, seg_out,
          dw_pc, repo_chunks, commit_freq, count, workers, tmp_dir, cleanups,
          repos_out_hist, ar

\* State of one call of filter_parquet_file: its arguments, the stored
\* table, its locals, the two files it writes (dest_pq and rejects_pq list
\* every write of the file, the last one being its content) and the exception
\* that left it.  columns is the set of required columns the stored table has,
\* loads the number of reads of the table in the current call, run the number
\* of the call on this table.
filterVars == <<pc, cfg, is_slim, pq_file, _df, filter_flag, reject_df,
                dest_pq, rejects_pq, exc, columns, loads, run>>

\* One table filtered under each preset and under the keyword defaults:
\* cmp_table is the loaded table, cmp_out the outcome of each call.
cmpVars == <<cmp_pc, cmp_table, cmp_out>>

\* Step 0 of filter_parquet_file in two workers: output_dir is the output
\* directory both are given, pq_paths[w] the table path of worker w and
\* derived[w] the paths it derived, once it has.  A path is the sequence of its
\* characters; ".parquet", "_rejects" and ".csv" stand as one character each.
pathVars == <<output_dir, pq_paths, derived>>

\* curate main: m_pc is its position, _args the parsed command line, tree the
\* language directories under root_dir, results the paths returned by the
\* calls of filter_parquet_file so far, writes the log of table files written
\* and csv the log of writes of filtered_meta.csv.
mainVars == <<m_pc, _args, tree, meta_df, filtered_meta_df, results, writes, csv>>

\* get_repos: repo_names is the remote repo list, frac is 1/seg_k and
\* seg_out[i] the list returned for seg_num = i, for the segments run so far.
segVars == <<repo_names, seg_k, seg_out>>

\* do_work: dw_pc is its position, count the index of the current chunk,
\* workers[i] the pool task of the i-th repo of the chunk, tmp_dir the
\* temporary directory on disk, cleanups[c] the state of the shell launched
\* after chunk c, repos_out_hist the results of the chunks so far and ar the
\* archive (what was added, and how much of it is committed).
dwVars == <<dw_pc, repo_chunks, commit_freq, count, workers, tmp_dir, cleanups,
            repos_out_hist, ar>>

\* State outside the stepped call of filter_parquet_file.
others == <<cmpVars, pathVars, mainVars, segVars, dwVars>>

vars == <<filterVars, others>>

\* Largest number of rows of a table.
MaxRows == 2

\* Largest number of rows of a table that is filtered under several presets.
MaxCmpRows == 2

\* Largest number of tables in a language directory.
MaxFiles == 2

\* Largest length of the remote repo list, and largest number of segments.
MaxRepos == 9
MaxSegs == 4

\* Largest number of chunks given to do_work.
MaxChunks == 2

----------------------------------------------------------------------------
\* Threshold configurations

\* Mutant of DefaultArgs: the default of min_lines is 2.
DefaultArgsMinLines2 ==
    [max_ll |-> 600, min_len |-> 50, min_max_ll |-> 25, max_size_kbs |-> 1000,
     min_alphanum |-> 10, max_alphanum |-> 9750, min_ave_ll |-> 16, min_lines |-> 2]

\* Keyword defaults of filter_parquet_file.
DefaultArgs ==
    [max_ll |-> 600, min_len |-> 50, min_max_ll |-> 25, max_size_kbs |-> 1000,
     min_alphanum |-> 10, max_alphanum |-> 9750, min_ave_ll |-> 16, min_lines |-> 3]

PermissiveFilterConfig ==
    [max_ll |-> 1200, min_len |-> 8, min_max_ll |-> 5, max_size_kbs |-> 1000,
     min_alphanum |-> 1, max_alphanum |-> 9900, min_ave_ll |-> 8, min_lines |-> 2]

ModerateFilterConfig ==
    [max_ll |-> 600, min_len |-> 50, min_max_ll |-> 25, max_size_kbs |-> 750,
     min_alphanum |-> 10, max_alphanum |-> 9750, min_ave_ll |-> 16, min_lines |-> 3]

AggressiveFilterConfig ==
    [max_ll |-> 300, min_len |-> 100, min_max_ll |-> 32, max_size_kbs |-> 500,
     min_alphanum |-> 25, max_alphanum |-> 9700, min_ave_ll |-> 20, min_lines |-> 5]

\* A caller-chosen configuration: the thresholds are plain keyword arguments,
\* so a caller may switch the size and average-line-length floors off.
NoFloorArgs ==
    [DefaultArgs EXCEPT !.min_len = 0, !.min_ave_ll = -1]

\* A caller-chosen configuration whose average-line-length floor is zero.
ZeroFloorArgs ==
    [DefaultArgs EXCEPT !.min_len = 0, !.min_ave_ll = 0]

Configs ==
    {DefaultArgs, PermissiveFilterConfig, ModerateFilterConfig,
     AggressiveFilterConfig, NoFloorArgs, ZeroFloorArgs}

----------------------------------------------------------------------------
\* Rows

\* Outcome of ast.parse on the texts used as row content.
ast_parse(input_string) ==
    CASE input_string = "x=1"            -> "ok"
      [] input_string = "print 1"        -> "SyntaxError"
      [] input_string = "nul byte"       -> "ValueError"
      [] input_string = "deep nesting"   -> "MemoryError"

Contents == {"x=1", "print 1", "nul byte", "deep nesting"}

\* A row that passes the six numeric stages of every preset but Aggressive's
\* min_max_ll; its content parses.
GoodRow ==
    [file_size |-> 200, max_ll |-> 30, ave_ll |-> 20, alphanum_frac |-> 5000,
     content |-> "x=1"]

\* Rows of the canonical (slim) schema a table is made of: GoodRow changed in
\* one field, and three rows changed in two.
RowPool ==
       {[GoodRow EXCEPT !.content = c] : c \in Contents}
  \cup {[GoodRow EXCEPT !.max_ll = v] : v \in {24, 25, 600, 601}}
  \cup {[GoodRow EXCEPT !.file_size = v] : v \in {40, 50, 1024000, 1024001, 1025024}}
  \cup {[GoodRow EXCEPT !.ave_ll = v] : v \in {0, 16, 17}}
  \cup {[GoodRow EXCEPT !.alphanum_frac = v] : v \in {10, 9750}}
  \cup {[GoodRow EXCEPT !.max_ll = 601, !.alphanum_frac = 9999],
        [GoodRow EXCEPT !.ave_ll = 0, !.file_size = 0],
        [GoodRow EXCEPT !.file_size = 40, !.content = "print 1"]}

\* The same row in the schema of the raw dataset, read when is_slim is false.
RawRow(r) ==
    [size |-> r.file_size, max_line_length |-> r.max_ll,
     avg_line_length |-> r.ave_ll, alphanum_fraction |-> r.alphanum_frac,
     content |-> r.content]

RECURSIVE SeqsUpTo(_, _)
SeqsUpTo(S, n) ==
    IF n = 0 THEN {<<>>}
    ELSE LET shorter == SeqsUpTo(S, n - 1)
         IN  shorter \cup {Append(s, x) : s \in {t \in shorter : Len(t) = n - 1}, x \in S}

----------------------------------------------------------------------------
\* DataFrame operations

\* open_pq_as_df: slim tables are read as stored; the columns of raw tables
\* are renamed.  Every integer of the model lies in the int32 range, on which
\* astype(np.int32) changes no value.  read_parquet attaches a RangeIndex.
open_pq_as_df(pq, slim) ==
    [i \in 1..Len(pq) |->
        IF slim
        THEN [idx |-> i - 1, file_size |-> pq[i].file_size, max_ll |-> pq[i].max_ll,
              ave_ll |-> pq[i].ave_ll, alphanum_frac |-> pq[i].alphanum_frac,
              content |-> pq[i].content]
        ELSE [idx |-> i - 1, file_size |-> pq[i].size,
              max_ll |-> pq[i].max_line_length,
              ave_ll |-> pq[i].avg_line_length,
              alphanum_frac |-> pq[i].alphanum_fraction,
              content |-> pq[i].content]]

\* ~series
Invert(flag) == [i \in DOMAIN flag |-> ~flag[i]]

\* df[key] for a boolean Series key: the key is reindexed to df's index and
\* the rows whose label maps to True are selected.
BoolIndex(df, key) == SelectSeq(df, LAMBDA r : key[r.idx])

\* A frame without a reason column, concatenated to one that has it, gets NaN.
WithNaN(df) ==
    [i \in 1..Len(df) |->
        [idx |-> df[i].idx, file_size |-> df[i].file_size, max_ll |-> df[i].max_ll,
         ave_ll |-> df[i].ave_ll, alphanum_frac |-> df[i].alphanum_frac,
         content |-> df[i].content, reason |-> "NaN"]]

\* pd.concat((a, b))
concat(a, b) == a \o b

RECURSIVE InsertByIdx(_, _)
InsertByIdx(s, r) ==
    IF s = <<>> THEN <<r>>
    ELSE IF s[Len(s)].idx <= r.idx THEN Append(s, r)
    ELSE Append(InsertByIdx(SubSeq(s, 1, Len(s) - 1), r), s[Len(s)])

\* df.sort_index()
RECURSIVE sort_index(_)
sort_index(df) ==
    IF df = <<>> THEN <<>>
    ELSE InsertByIdx(sort_index(SubSeq(df, 1, Len(df) - 1)), df[Len(df)])

\* df["reason"] = df["reason"].fillna(tag)
fillna(df, tag) ==
    [i \in 1..Len(df) |-> IF df[i].reason = "NaN" THEN [df[i] EXCEPT !.reason = tag] ELSE df[i]]

\* df["reason"] = tag
SetReason(df, tag) == [i \in 1..Len(df) |-> [df[i] EXCEPT !.reason = tag]]

\* Mutant of DropIndex: the index is stored as a column.
KeepIndex(df) == df

\* to_parquet(path, index=False): the index is not stored.
DropIndex(df) ==
    [i \in 1..Len(df) |-> [f \in (DOMAIN df[i]) \ {"idx"} |-> df[i][f]]]

----------------------------------------------------------------------------
\* Stage predicates, as the code evaluates them

\* Step 2
flag_max_ll(r, c) == (r.max_ll <= c.max_ll) /\ (r.max_ll >= c.min_max_ll)

\* Step 3
flag_min_len(r, c) == r.file_size >= c.min_len

\* Step 4: floor division of the byte count
flag_max_size(r, c) == (r.file_size \div 1024) <= c.max_size_kbs

\* Step 5
flag_alphanum(r, c) == (r.alphanum_frac > c.min_alphanum) /\ (r.alphanum_frac < c.max_alphanum)

\* Mutant of flag_ave_ll: the floor itself passes.
flag_ave_ll_ge(r, c) == r.ave_ll >= c.min_ave_ll

\* Step 6
flag_ave_ll(r, c) == r.ave_ll > c.min_ave_ll

\* Step 7: file_size / ave_ll >= min_lines in floating point.  A zero divisor
\* raises nothing: the quotient is inf, -inf or NaN, and a comparison with NaN
\* is False.
flag_min_lines(r, c) ==
    IF r.ave_ll > 0 THEN r.file_size >= c.min_lines * r.ave_ll
    ELSE IF r.ave_ll < 0 THEN r.file_size <= c.min_lines * r.ave_ll
    ELSE r.file_size > 0

\* test_source_code_compatible: True when the parse succeeds, False on
\* SyntaxError and ValueError; any other exception propagates.
Handled == {"SyntaxError", "ValueError"}

test_source_code_compatible(input_string) == ast_parse(input_string) = "ok"

Raises(input_string) == ast_parse(input_string) \notin ({"ok"} \cup Handled)

\* Step 8: the mask is the negation of the compatibility test.
flag_python2(r, c) == ~test_source_code_compatible(r.content)

\* The mask of the stage that fills in the reason tag.
StageFlag(tag, r, c) ==
    CASE tag = "max_ll"         -> flag_max_ll(r, c)
      [] tag = "file_too_small" -> flag_min_len(r, c)
      [] tag = "file_too_large" -> flag_max_size(r, c)
      [] tag = "alphanum_frac"  -> flag_alphanum(r, c)
      [] tag = "ave_ll"         -> flag_ave_ll(r, c)
      [] tag = "min_lines"      -> flag_min_lines(r, c)
      [] tag = "python2"        -> flag_python2(r, c)

\* The boolean Series filter_flag of a stage: the stage's mask evaluated on
\* every row of df, indexed by df's labels.
Flag(df, tag, c) ==
    [i \in {df[k].idx : k \in 1..Len(df)} |->
        StageFlag(tag, CHOOSE r \in {df[k] : k \in 1..Len(df)} : r.idx = i, c)]

----------------------------------------------------------------------------
\* filter_parquet_file

NoExc == [type |-> "none", origin |-> "none"]

\* The columns the stages read, by their canonical names.
Required == {"max_ll", "file_size", "alphanum_frac", "ave_ll", "content"}

\* The columns the mask of a stage reads.
StageNeeds(tag) ==
    CASE tag = "max_ll"         -> {"max_ll"}
      [] tag = "file_too_small" -> {"file_size"}
      [] tag = "file_too_large" -> {"file_size"}
      [] tag = "alphanum_frac"  -> {"alphanum_frac"}
      [] tag = "ave_ll"         -> {"ave_ll"}
      [] tag = "min_lines"      -> {"file_size", "ave_ll"}
      [] tag = "python2"        -> {"content"}

\* The stage a position of the call is about to run.
TagAt(here) ==
    CASE here = "step2" -> "max_ll"
      [] here = "step3" -> "file_too_small"
      [] here = "step4" -> "file_too_large"
      [] here = "step5" -> "alphanum_frac"
      [] here = "step6" -> "ave_ll"
      [] here = "step7" -> "min_lines"
      [] here = "step8" -> "python2"

StageSteps == {"step2", "step3", "step4", "step5", "step6", "step7", "step8"}

\* No comparison of presets is running.
CmpIdle ==
    /\ cmp_pc = "idle"
    /\ cmp_table = <<>>
    /\ cmp_out = <<>>

\* No worker is deriving paths.
PathIdle ==
    /\ output_dir = <<>>
    /\ pq_paths = <<>>
    /\ derived = <<>>

\* curate main is not running.
MainIdle ==
    /\ m_pc = "idle"
    /\ _args = <<>>
    /\ tree = <<>>
    /\ meta_df = <<>>
    /\ filtered_meta_df = <<>>
    /\ results = <<>>
    /\ writes = <<>>
    /\ csv = <<>>

\* get_repos is not called.
SegIdle ==
    /\ repo_names = <<>>
    /\ seg_k = 0
    /\ seg_out = <<>>

\* do_work is not running.
DwIdle ==
    /\ dw_pc = "idle"
    /\ repo_chunks = <<>>
    /\ commit_freq = 0
    /\ count = 0
    /\ workers = <<>>
    /\ tmp_dir = <<>>
    /\ cleanups = <<>>
    /\ repos_out_hist = <<>>
    /\ ar = <<>>

\* Nothing outside the stepped call of filter_parquet_file is running.
OthersIdle == CmpIdle /\ PathIdle /\ MainIdle /\ SegIdle /\ DwIdle

Init ==
    /\ pc = "step1"
    /\ cfg \in Configs
    /\ is_slim \in BOOLEAN
    /\ \E t \in SeqsUpTo(RowPool, MaxRows) :
          pq_file = IF is_slim THEN t ELSE [i \in 1..Len(t) |-> RawRow(t[i])]
    /\ _df = <<>>
    /\ filter_flag = <<>>
    /\ reject_df = <<>>
    /\ dest_pq = <<>>
    /\ rejects_pq = <<>>
    /\ exc = NoExc
    /\ columns \in {Required} \cup {Required \ {col} : col \in Required}
    /\ loads = 0
    /\ run = 1
    /\ OthersIdle

\* Step 1 - load the table
Step1 ==
    /\ pc = "step1"
    /\ is_slim \/ columns = Required
    /\ _df' = open_pq_as_df(pq_file, is_slim)
    /\ loads' = loads + 1
    /\ pc' = "step2"
    /\ UNCHANGED <<cfg, is_slim, pq_file, filter_flag, reject_df, dest_pq, rejects_pq, exc,
                   columns, run, others>>

\* Step 1 when read_parquet raises: the file cannot be read, or the raw table
\* lacks one of the columns that are selected when is_slim is false.
Step1Raise ==
    /\ pc = "step1"
    /\ exc' = [type |-> IF is_slim \/ columns = Required THEN "OSError" ELSE "KeyError",
               origin |-> "open_pq_as_df"]
    /\ pc' = "raised"
    /\ UNCHANGED <<cfg, is_slim, pq_file, _df, filter_flag, reject_df, dest_pq, rejects_pq,
                   columns, loads, run, others>>

\* Step 2 and 2.5 - maximum line length; the rejection frame is created
Step2 ==
    /\ pc = "step2"
    /\ StageNeeds("max_ll") \subseteq columns
    /\ LET flag == Flag(_df, "max_ll", cfg)
           df   == BoolIndex(_df, flag)
       IN  /\ filter_flag' = flag
           /\ _df' = df
           /\ reject_df' = SetReason(WithNaN(BoolIndex(df, Invert(flag))), "max_ll")
    /\ pc' = "step3"
    /\ UNCHANGED <<cfg, is_slim, pq_file, dest_pq, rejects_pq, exc, columns, loads, run, others>>

\* Steps 3..7 and their .5 halves: filter, then concatenate the rejected rows,
\* sort by index and fill the missing reasons.
Stage(here, next, tag) ==
    /\ pc = here
    /\ StageNeeds(tag) \subseteq columns
    /\ LET flag == Flag(_df, tag, cfg)
           df   == BoolIndex(_df, flag)
       IN  /\ filter_flag' = flag
           /\ _df' = df
           /\ reject_df' = fillna(sort_index(concat(reject_df, WithNaN(BoolIndex(df, Invert(flag))))), tag)
    /\ pc' = next
    /\ UNCHANGED <<cfg, is_slim, pq_file, dest_pq, rejects_pq, exc, columns, loads, run, others>>

Step3 == Stage("step3", "step4", "file_too_small")

Step4 == Stage("step4", "step5", "file_too_large")

Step5 == Stage("step5", "step6", "alphanum_frac")

Step6 == Stage("step6", "step7", "ave_ll")

Step7 == Stage("step7", "step8", "min_lines")

\* Step 8 and 8.5 - the syntax check, when no row's parse raises past the handlers
Step8 ==
    /\ \A k \in 1..Len(_df) : ~Raises(_df[k].content)
    /\ Stage("step8", "step9", "python2")

\* Step 8 when the parse of some surviving row raises an exception that
\* test_source_code_compatible does not catch: filter_parquet_file is left.
Step8Raise ==
    /\ pc = "step8"
    /\ StageNeeds("python2") \subseteq columns
    /\ \E k \in 1..Len(_df) :
          /\ Raises(_df[k].content)
          /\ \A j \in 1..(k - 1) : ~Raises(_df[j].content)
          /\ exc' = [type |-> ast_parse(_df[k].content), origin |-> "test_source_code_compatible"]
    /\ pc' = "raised"
    /\ UNCHANGED <<cfg, is_slim, pq_file, _df, filter_flag, reject_df, dest_pq, rejects_pq,
                   columns, loads, run, others>>

\* A stage whose mask reads a column the table does not have: the attribute
\* access raises and filter_parquet_file is left.
StageRaise ==
    /\ pc \in StageSteps
    /\ ~(StageNeeds(TagAt(pc)) \subseteq columns)
    /\ exc' = [type |-> "AttributeError", origin |-> "filter_parquet_file"]
    /\ pc' = "raised"
    /\ UNCHANGED <<cfg, is_slim, pq_file, _df, filter_flag, reject_df, dest_pq, rejects_pq,
                   columns, loads, run, others>>

\* Mutant of Step9: the frame is appended to the file that is already there.
Step9Appending ==
    /\ pc = "step9"
    /\ dest_pq' = Append(dest_pq,
                         (IF dest_pq = <<>> THEN <<>> ELSE dest_pq[Len(dest_pq)]) \o DropIndex(_df))
    /\ pc' = "step9.5"
    /\ UNCHANGED <<cfg, is_slim, pq_file, _df, filter_flag, reject_df, rejects_pq, exc,
                   columns, loads, run, others>>

\* Step 9 - save the filtered frame
Step9 ==
    /\ pc = "step9"
    /\ dest_pq' = Append(dest_pq, DropIndex(_df))
    /\ pc' = "step9.5"
    /\ UNCHANGED <<cfg, is_slim, pq_file, _df, filter_flag, reject_df, rejects_pq, exc,
                   columns, loads, run, others>>

\* Step 9 when to_parquet raises (no directory at the destination, a full
\* disk): nothing is written.
Step9Raise ==
    /\ pc = "step9"
    /\ exc' = [type |-> "OSError", origin |-> "to_parquet"]
    /\ pc' = "raised"
    /\ UNCHANGED <<cfg, is_slim, pq_file, _df, filter_flag, reject_df, dest_pq, rejects_pq,
                   columns, loads, run, others>>

\* Mutant of Step9_5: the rejection frame is written to the destination path.
Step9_5ToDest ==
    /\ pc = "step9.5"
    /\ dest_pq' = Append(dest_pq, DropIndex(reject_df))
    /\ pc' = "done"
    /\ UNCHANGED <<cfg, is_slim, pq_file, _df, filter_flag, reject_df, rejects_pq, exc,
                   columns, loads, run, others>>

\* Step 9.5 - save the rejection frame, then return
Step9_5 ==
    /\ pc = "step9.5"
    /\ rejects_pq' = Append(rejects_pq, DropIndex(reject_df))
    /\ pc' = "done"
    /\ UNCHANGED <<cfg, is_slim, pq_file, _df, filter_flag, reject_df, dest_pq, exc,
                   columns, loads, run, others>>

\* Step 9.5 when the second to_parquet raises: the filtered frame is already
\* on disk.
Step9_5Raise ==
    /\ pc = "step9.5"
    /\ exc' = [type |-> "OSError", origin |-> "to_parquet"]
    /\ pc' = "raised"
    /\ UNCHANGED <<cfg, is_slim, pq_file, _df, filter_flag, reject_df, dest_pq, rejects_pq,
                   columns, loads, run, others>>

\* The caller invokes filter_parquet_file a second time with the same
\* arguments on the same stored table; the locals of the first call are gone.
Rerun ==
    /\ pc = "done"
    /\ run = 1
    /\ run' = 2
    /\ pc' = "step1"
    /\ _df' = <<>>
    /\ filter_flag' = <<>>
    /\ reject_df' = <<>>
    /\ loads' = 0
    /\ UNCHANGED <<cfg, is_slim, pq_file, dest_pq, rejects_pq, exc, columns, others>>

Next ==
    \/ Step1
    \/ Step1Raise
    \/ Step2
    \/ Step3
    \/ Step4
    \/ Step5
    \/ Step6
    \/ Step7
    \/ Step8
    \/ Step8Raise
    \/ StageRaise
    \/ Step9
    \/ Step9Raise
    \/ Step9_5
    \/ Step9_5Raise
    \/ Rerun

Spec == Init /\ [][Next]_vars

----------------------------------------------------------------------------
\* filter_parquet_file as a function of the loaded table and the thresholds

StageTags ==
    <<"max_ll", "file_too_small", "file_too_large", "alphanum_frac", "ave_ll",
      "min_lines", "python2">>

\* _df after the first k stages.
RECURSIVE Funnel(_, _, _)
Funnel(df, c, k) ==
    IF k = 0 THEN df
    ELSE LET prev == Funnel(df, c, k - 1)
         IN  BoolIndex(prev, Flag(prev, StageTags[k], c))

\* reject_df after the first k stages (k >= 1).
RECURSIVE Ledger(_, _, _)
Ledger(df, c, k) ==
    LET prev == Funnel(df, c, k - 1)
        new  == WithNaN(BoolIndex(Funnel(df, c, k), Invert(Flag(prev, StageTags[k], c))))
    IN  IF k = 1 THEN SetReason(new, StageTags[1])
        ELSE fillna(sort_index(concat(Ledger(df, c, k - 1), new)), StageTags[k])

\* The call on a readable table with all columns: it is left by an exception
\* when the parse of a row that reaches step 8 raises past the handlers, and
\* writes the two frames otherwise.
filter_parquet_file(df, c) ==
    IF \E k \in 1..Len(Funnel(df, c, 6)) : Raises(Funnel(df, c, 6)[k].content)
    THEN [raised |-> TRUE, kept |-> <<>>, rejected |-> <<>>]
    ELSE [raised |-> FALSE, kept |-> Funnel(df, c, 7), rejected |-> Ledger(df, c, 7)]

PresetNames == {"default", "permissive", "moderate", "aggressive"}

\* curate.main picks the configuration by name; no name means the keyword
\* defaults of filter_parquet_file.
ConfigOf(name) ==
    CASE name = "default"    -> DefaultArgs
      [] name = "permissive" -> PermissiveFilterConfig
      [] name = "moderate"   -> ModerateFilterConfig
      [] name = "aggressive" -> AggressiveFilterConfig

\* Rows around the thresholds in which the presets differ.
CmpPool ==
    {[file_size |-> fs, max_ll |-> ml, ave_ll |-> al, alphanum_frac |-> 5000, content |-> ct] :
        fs \in {60, 200, 800000}, ml \in {30, 40}, al \in {18, 25},
        ct \in {"x=1", "print 1", "deep nesting"}}

\* Nothing of the stepped call is running.
FilterIdle ==
    /\ pc = "idle"
    /\ cfg = DefaultArgs
    /\ is_slim = TRUE
    /\ pq_file = <<>>
    /\ _df = <<>>
    /\ filter_flag = <<>>
    /\ reject_df = <<>>
    /\ dest_pq = <<>>
    /\ rejects_pq = <<>>
    /\ exc = NoExc
    /\ columns = Required
    /\ loads = 0
    /\ run = 0

CmpInit ==
    /\ FilterIdle
    /\ PathIdle
    /\ MainIdle
    /\ SegIdle
    /\ DwIdle
    /\ cmp_pc = "loaded"
    /\ \E t \in SeqsUpTo(CmpPool, MaxCmpRows) : cmp_table = open_pq_as_df(t, TRUE)
    /\ cmp_out = <<>>

\* The same table is filtered under the defaults and under each preset.
RunPresets ==
    /\ cmp_pc = "loaded"
    /\ cmp_out' = [n \in PresetNames |-> filter_parquet_file(cmp_table, ConfigOf(n))]
    /\ cmp_pc' = "compared"
    /\ UNCHANGED <<filterVars, cmp_table, pathVars, mainVars, segVars, dwVars>>

CmpNext == RunPresets

CompareSpec == CmpInit /\ [][CmpNext]_vars

----------------------------------------------------------------------------
\* Step 0 of filter_parquet_file: the paths

\* s.rsplit("/", n): s is cut at its last n separators.
RECURSIVE rsplit(_, _)
rsplit(str, n) ==
    LET seps == {i \in 1..Len(str) : str[i] = "/"}
    IN  IF n = 0 \/ seps = {} THEN <<str>>
        ELSE LET k == CHOOSE i \in seps : \A j \in seps : j <= i
             IN  Append(rsplit(SubSeq(str, 1, k - 1), n - 1), SubSeq(str, k + 1, Len(str)))

\* s.replace(old, new) for a non-empty old: every occurrence of old in s,
\* from the left and without overlap, becomes new.
RECURSIVE replace(_, _, _)
replace(str, old, new) ==
    IF Len(str) < Len(old) THEN str
    ELSE IF SubSeq(str, 1, Len(old)) = old
         THEN new \o replace(SubSeq(str, Len(old) + 1, Len(str)), old, new)
         ELSE <<str[1]>> \o replace(Tail(str), old, new)

\* os.path.join(a, b) for a relative b
path_join(a, b) == a \o <<"/">> \o b

\* _dest_path = pq_path.replace(_origin_root_dir, output_dir.rsplit("/", 1)[-1])
dest_path(pq_path, out_dir) ==
    LET _origin_root_dir == rsplit(pq_path, 3)[2]
        out_name == rsplit(out_dir, 1)[Len(rsplit(out_dir, 1))]
    IN  replace(pq_path, _origin_root_dir, out_name)

\* _dest_path.replace(".parquet", "_rejects.parquet")
rejects_path(_dest_path) == replace(_dest_path, <<".parquet">>, <<"_rejects", ".parquet">>)

\* Table paths <root>/<origin_dir>/<lang>/<file>.
PathPool ==
    {path_join(path_join(path_join(root, origin), lang), file) :
        root \in {<<"d">>, <<"a">>},
        origin \in {<<"a">>, <<"o">>, <<"s">>},
        lang \in {<<"p">>, <<"a">>},
        file \in {<<"f", ".parquet">>, <<"a", ".parquet">>, <<"f", "_rejects", ".parquet">>}}

OutDirPool == {<<"x", "/", "o">>, <<"d", "/", "o">>, <<"d", "/", "s">>}

PathInit ==
    /\ FilterIdle
    /\ CmpIdle
    /\ MainIdle
    /\ SegIdle
    /\ DwIdle
    /\ output_dir \in OutDirPool
    /\ \E a \in PathPool, b \in PathPool : a # b /\ pq_paths = <<a, b>>
    /\ derived = <<<<>>, <<>>>>

\* Step 0 in worker w, with the rejects path of step 9.5.
Step0(w) ==
    /\ derived[w] = <<>>
    /\ LET _dest_path == dest_path(pq_paths[w], output_dir)
       IN  derived' = [derived EXCEPT ![w] =
                          <<[dest_dir |-> path_join(output_dir, rsplit(pq_paths[w], 3)[3]),
                             dest |-> _dest_path,
                             rejects |-> rejects_path(_dest_path)]>>]
    /\ UNCHANGED <<filterVars, cmpVars, output_dir, pq_paths, mainVars, segVars, dwVars>>

PathNext == \E w \in {1, 2} : Step0(w)

PathSpec == PathInit /\ [][PathNext]_vars

----------------------------------------------------------------------------
\* curate main

\* An optional command-line argument: None, or the value given.
None == <<>>
Some(v) == <<v>>

\* Python truth of an optional number: None and zero are false.
Truthy(o) == o # None /\ o[1] # 0

root_dir == <<"d", "/", "s">>

\* The language directories, in the order glob lists them.  The names o and s
\* are also those of the output directory and of the last directory of
\* root_dir, so that two tables can be given one derived path.
LangOrder == <<<<".csv">>, <<"o">>, <<"s">>>>
Langs == {LangOrder[i] : i \in 1..Len(LangOrder)}

FileNames == <<<<"f", ".parquet">>, <<"g", ".parquet">>, <<"h", ".parquet">>,
               <<"i", ".parquet">>>>

\* The first n file names.
FirstFiles(n) == SubSeq(FileNames, 1, n)

\* glob(root_dir/**/*.parquet): the tables of the languages lang_order names.
RECURSIVE glob(_, _)
glob(t, lang_order) ==
    IF lang_order = <<>> THEN <<>>
    ELSE LET lang == Head(lang_order)
         IN  [i \in 1..Len(t[lang].files) |->
                 path_join(path_join(root_dir, lang), t[lang].files[i])]
             \o glob(t, Tail(lang_order))

\* glob_pq_paths finds nothing it accepts unless more than two paths match.
glob_pq_paths_ok(t) == Len(glob(t, LangOrder)) > 2

make_meta_df(t) ==
    LET all_pq_paths == glob(t, LangOrder)
    IN  [i \in 1..Len(all_pq_paths) |->
            LET lang == rsplit(all_pq_paths[i], 2)[2]
            IN  [pq_path |-> all_pq_paths[i],
                 lang |-> lang,
                 lang_size_mb |-> t[lang].size_mb,
                 lang_file_cnt |-> Len(t[lang].files)]]

bad_langs == {<<".csv">>}

LangsOf(meta) == {meta[i].lang : i \in 1..Len(meta)}

\* meta_df.groupby("lang")["lang_size_mb"].sum() at one language
RECURSIVE lang_size_sum(_, _)
lang_size_sum(meta, lang) ==
    IF meta = <<>> THEN 0
    ELSE (IF Head(meta).lang = lang THEN Head(meta).lang_size_mb ELSE 0)
         + lang_size_sum(Tail(meta), lang)

\* The values .sort_values(ascending=False).index[:top_k] can have for a
\* top_k >= 0: languages of equal sum come in either order.
top_langs_choices(meta, top_k) ==
    {T \in SUBSET LangsOf(meta) :
        /\ Cardinality(T) = IF top_k < Cardinality(LangsOf(meta))
                            THEN top_k ELSE Cardinality(LangsOf(meta))
        /\ \A a \in T, b \in LangsOf(meta) \ T :
               lang_size_sum(meta, a) >= lang_size_sum(meta, b)}

\* filter_meta_languages, with top_langs as the sort produced it
filter_meta_languages(meta, top_k, mb_size_thresh, pq_file_cnt_thresh, top_langs) ==
    LET selected ==
            IF Truthy(top_k)
            THEN SelectSeq(meta, LAMBDA r : r.lang \in top_langs)
            ELSE IF Truthy(mb_size_thresh)
            THEN SelectSeq(meta, LAMBDA r : r.lang_size_mb > mb_size_thresh[1])
            ELSE IF Truthy(pq_file_cnt_thresh)
            THEN SelectSeq(meta, LAMBDA r : r.lang_file_cnt >= pq_file_cnt_thresh[1])
            ELSE meta
    IN  SelectSeq(selected, LAMBDA r : r.lang \notin bad_langs)

Trees ==
    {[lang \in Langs |-> [files |-> FirstFiles(n[lang]),
                          size_mb |-> IF lang \in bad_langs THEN 15 ELSE sz[lang]]] :
        n \in [Langs -> 0..MaxFiles], sz \in [Langs \ bad_langs -> {15, 20}]}

MainInit ==
    /\ FilterIdle
    /\ CmpIdle
    /\ PathIdle
    /\ SegIdle
    /\ DwIdle
    /\ m_pc = "start"
    /\ _args \in [config_style : {"moderate", "fast"},
                  top_k : {None, Some(0), Some(1), Some(2)},
                  mb_size_thresh : {None, Some(0), Some(15)},
                  pq_file_cnt_thresh : {None, Some(0), Some(2)},
                  output_dir : {<<"d", "/", "o">>, <<"x", "/", "o">>}]
    /\ tree \in Trees
    /\ meta_df = <<>>
    /\ filtered_meta_df = <<>>
    /\ results = <<>>
    /\ writes = <<>>
    /\ csv = <<>>

\* Lines 14-20: config_style names a preset.
MainConfig ==
    /\ m_pc = "start"
    /\ _args.config_style \in PresetNames
    /\ m_pc' = "configured"
    /\ UNCHANGED <<filterVars, cmpVars, pathVars, segVars, dwVars,
                   _args, tree, meta_df, filtered_meta_df, results, writes, csv>>

\* Lines 21-23: ValueError on any other config_style.
MainConfigRaise ==
    /\ m_pc = "start"
    /\ _args.config_style \notin PresetNames
    /\ m_pc' = "raised"
    /\ UNCHANGED <<filterVars, cmpVars, pathVars, segVars, dwVars,
                   _args, tree, meta_df, filtered_meta_df, results, writes, csv>>

MainMakeMeta ==
    /\ m_pc = "configured"
    /\ glob_pq_paths_ok(tree)
    /\ meta_df' = make_meta_df(tree)
    /\ m_pc' = "meta"
    /\ UNCHANGED <<filterVars, cmpVars, pathVars, segVars, dwVars,
                   _args, tree, filtered_meta_df, results, writes, csv>>

\* glob_pq_paths raises FileNotFoundError.
MainMakeMetaRaise ==
    /\ m_pc = "configured"
    /\ ~glob_pq_paths_ok(tree)
    /\ m_pc' = "raised"
    /\ UNCHANGED <<filterVars, cmpVars, pathVars, segVars, dwVars,
                   _args, tree, meta_df, filtered_meta_df, results, writes, csv>>

MainFilterLanguages ==
    /\ m_pc = "meta"
    /\ \E top_langs \in (IF Truthy(_args.top_k)
                         THEN top_langs_choices(meta_df, _args.top_k[1]) ELSE {{}}) :
           filtered_meta_df' = filter_meta_languages(meta_df, _args.top_k,
                                   _args.mb_size_thresh, _args.pq_file_cnt_thresh, top_langs)
    /\ m_pc' = "apply"
    /\ UNCHANGED <<filterVars, cmpVars, pathVars, segVars, dwVars,
                   _args, tree, meta_df, results, writes, csv>>

\* The next call of filter_parquet_file by progress_apply, when it returns.
MainApply ==
    /\ m_pc = "apply"
    /\ Len(results) < Len(filtered_meta_df)
    /\ LET x == filtered_meta_df[Len(results) + 1].pq_path
           _dest_path == dest_path(x, _args.output_dir)
       IN  /\ writes' = writes \o
                   <<[table |-> x, kind |-> "kept", file |-> _dest_path],
                     [table |-> x, kind |-> "rejects", file |-> rejects_path(_dest_path)]>>
           /\ results' = Append(results, _dest_path)
    /\ UNCHANGED <<filterVars, cmpVars, pathVars, segVars, dwVars,
                   m_pc, _args, tree, meta_df, filtered_meta_df, csv>>

\* The next call of filter_parquet_file raises, before step 9 or at step 9.5.
MainApplyRaise ==
    /\ m_pc = "apply"
    /\ Len(results) < Len(filtered_meta_df)
    /\ LET x == filtered_meta_df[Len(results) + 1].pq_path
       IN  \E kept_written \in BOOLEAN :
               writes' = IF kept_written
                         THEN Append(writes, [table |-> x, kind |-> "kept",
                                              file |-> dest_path(x, _args.output_dir)])
                         ELSE writes
    /\ m_pc' = "raised"
    /\ UNCHANGED <<filterVars, cmpVars, pathVars, segVars, dwVars,
                   _args, tree, meta_df, filtered_meta_df, results, csv>>

\* filtered_meta.csv with the table's own path in place of the returned one
MainSaveCsvInputPath ==
    /\ m_pc = "apply"
    /\ Len(results) = Len(filtered_meta_df)
    /\ csv' = Append(csv, [i \in 1..Len(filtered_meta_df) |->
                   [pq_path |-> filtered_meta_df[i].pq_path,
                    lang |-> filtered_meta_df[i].lang,
                    lang_size_mb |-> filtered_meta_df[i].lang_size_mb,
                    lang_file_cnt |-> filtered_meta_df[i].lang_file_cnt,
                    filtered_pq_path |-> filtered_meta_df[i].pq_path]])
    /\ m_pc' = "done"
    /\ UNCHANGED <<filterVars, cmpVars, pathVars, segVars, dwVars,
                   _args, tree, meta_df, filtered_meta_df, results, writes>>

\* Lines 37 (the column assignment), 41, 42.
MainSaveCsv ==
    /\ m_pc = "apply"
    /\ Len(results) = Len(filtered_meta_df)
    /\ csv' = Append(csv, [i \in 1..Len(filtered_meta_df) |->
                   [pq_path |-> filtered_meta_df[i].pq_path,
                    lang |-> filtered_meta_df[i].lang,
                    lang_size_mb |-> filtered_meta_df[i].lang_size_mb,
                    lang_file_cnt |-> filtered_meta_df[i].lang_file_cnt,
                    filtered_pq_path |-> results[i]]])
    /\ m_pc' = "done"
    /\ UNCHANGED <<filterVars, cmpVars, pathVars, segVars, dwVars,
                   _args, tree, meta_df, filtered_meta_df, results, writes>>

\* Line 41 reads the global args, which only the script defines, and to_csv
\* can fail: either raises with no filtered_meta.csv written.
MainSaveCsvRaise ==
    /\ m_pc = "apply"
    /\ Len(results) = Len(filtered_meta_df)
    /\ m_pc' = "raised"
    /\ UNCHANGED <<filterVars, cmpVars, pathVars, segVars, dwVars,
                   _args, tree, meta_df, filtered_meta_df, results, writes, csv>>

MainNext ==
    \/ MainConfig
    \/ MainConfigRaise
    \/ MainMakeMeta
    \/ MainMakeMetaRaise
    \/ MainFilterLanguages
    \/ MainApply
    \/ MainApplyRaise
    \/ MainSaveCsv
    \/ MainSaveCsvRaise

MainSpec == MainInit /\ [][MainNext]_vars

----------------------------------------------------------------------------
\* get_repos

\* df.iloc[a:b] on a list: positions a..b-1, cut at the end of the list.
iloc(lst, a, b) == SubSeq(lst, a + 1, IF b < Len(lst) THEN b ELSE Len(lst))

\* get_repos(frac=1/k, seg_num=seg_num) on the remote list.  frac < 1.0 is
\* false for k = 1.  int(len(df) * frac) is the floor of n/k for every n and k
\* within the bounds (the floating-point product first falls short of it at
\* n = k = 49).
get_repos(lst, k, seg_num) ==
    IF k = 1 THEN lst
    ELSE LET frac_n == Len(lst) \div k
         IN  iloc(lst, frac_n * (seg_num - 1), frac_n * seg_num)

SegInit ==
    /\ FilterIdle
    /\ CmpIdle
    /\ PathIdle
    /\ MainIdle
    /\ DwIdle
    /\ \E n \in 0..MaxRepos : repo_names = [i \in 1..n |-> i]
    /\ seg_k \in 1..MaxSegs
    /\ seg_out = <<>>

\* parallel_dl main is run with the next segment number.
RunSegment ==
    /\ Len(seg_out) < seg_k
    /\ seg_out' = Append(seg_out, get_repos(repo_names, seg_k, Len(seg_out) + 1))
    /\ UNCHANGED <<filterVars, cmpVars, pathVars, mainVars, dwVars, repo_names, seg_k>>

SegNext == RunSegment

SegSpec == SegInit /\ [][SegNext]_vars

----------------------------------------------------------------------------
\* do_work and process_repo_list

\* The lists of a sequence of lists, one after the other.
RECURSIVE Flatten(_)
Flatten(lists) == IF lists = <<>> THEN <<>> ELSE Head(lists) \o Flatten(Tail(lists))

\* Repository names <owner>/<name>, as character sequences.
RepoPool == {<<"a", "/", "x">>, <<"b", "/", "x">>, <<"a", "/", "y">>}

\* The chunks do_work is given: a list of repository names each.
ChunkPool ==
    {<<>>,
     <<<<"a", "/", "x">>>>,
     <<<<"a", "/", "y">>>>,
     <<<<"a", "/", "x">>, <<"b", "/", "x">>>>,
     <<<<"a", "/", "x">>, <<"a", "/", "y">>>>}

_tmp_dir == <<".tmp">>

\* repo_dir = os.path.join(_tmp_dir, repo_data.rsplit("/", 1)[-1])
repo_dir_of(repo_data) ==
    path_join(_tmp_dir, rsplit(repo_data, 1)[Len(rsplit(repo_data, 1))])

\* The names a directory under _tmp_dir can have.
DirNames == {repo_dir_of(repo) : repo \in RepoPool}

\* The temporary directory when it holds no repository directory.  The entry
\* of a repository directory is the repository whose files it holds, or <<>>
\* when the directory does not exist.
EmptyTmp(exists) == [exists |-> exists, dirs |-> [d \in DirNames |-> <<>>]]

\* The result of a task that has not returned.
NoOut == [none |-> FALSE, files |-> <<>>]

DwInit ==
    /\ FilterIdle
    /\ CmpIdle
    /\ PathIdle
    /\ MainIdle
    /\ SegIdle
    /\ dw_pc = "loop"
    /\ repo_chunks \in SeqsUpTo(ChunkPool, MaxChunks)
    /\ commit_freq \in {1, 10000}
    /\ count = 0
    /\ workers = <<>>
    /\ tmp_dir = EmptyTmp(FALSE)
    /\ cleanups = <<>>
    /\ repos_out_hist = <<>>
    /\ ar = [added |-> <<>>, committed |-> 0]

\* pool.starmap hands the repositories of the next chunk to the pool.
DwStarmap ==
    /\ dw_pc = "loop"
    /\ count < Len(repo_chunks)
    /\ workers' = [i \in 1..Len(repo_chunks[count + 1]) |->
                      [repo |-> repo_chunks[count + 1][i], pc |-> "start",
                       repo_dir |-> <<>>, cloned |-> FALSE, out |-> NoOut]]
    /\ dw_pc' = "starmap"
    /\ UNCHANGED <<filterVars, cmpVars, pathVars, mainVars, segVars,
                   repo_chunks, commit_freq, count, tmp_dir, cleanups, repos_out_hist, ar>>

\* process_repo_list lines 214-217: the temporary directory is made.
WMakeDirs(i) ==
    /\ workers[i].pc = "start"
    /\ tmp_dir' = [tmp_dir EXCEPT !.exists = TRUE]
    /\ workers' = [workers EXCEPT ![i].pc = "clone"]
    /\ UNCHANGED <<filterVars, cmpVars, pathVars, mainVars, segVars,
                   dw_pc, repo_chunks, commit_freq, count, cleanups, repos_out_hist, ar>>

\* Lines 220-232: git clone into repo_dir.  The clone writes the repository
\* when the network lets it and repo_dir does not hold files already; git
\* makes the leading directories.
WClone(i) ==
    /\ workers[i].pc = "clone"
    /\ LET repo_dir == repo_dir_of(workers[i].repo)
       IN  \E ok \in BOOLEAN :
               LET written == ok /\ tmp_dir.dirs[repo_dir] = <<>>
               IN  /\ tmp_dir' = IF written
                                 THEN [exists |-> TRUE,
                                       dirs |-> [tmp_dir.dirs EXCEPT ![repo_dir] = workers[i].repo]]
                                 ELSE tmp_dir
                   /\ workers' = [workers EXCEPT ![i].pc = "walk",
                                                 ![i].repo_dir = repo_dir,
                                                 ![i].cloned = written]
    /\ UNCHANGED <<filterVars, cmpVars, pathVars, mainVars, segVars,
                   dw_pc, repo_chunks, commit_freq, count, cleanups, repos_out_hist, ar>>

\* process_repo lines 144-164: the files under repo_dir are read; the meta of
\* each carries the name of the repository the task was given.
WWalk(i) ==
    /\ workers[i].pc = "walk"
    /\ LET found == tmp_dir.dirs[workers[i].repo_dir]
       IN  workers' = [workers EXCEPT
               ![i].pc = "rmtree",
               ![i].out = [none |-> FALSE,
                           files |-> IF found = <<>> THEN <<>>
                                     ELSE <<[text |-> found, repo_name |-> workers[i].repo]>>]]
    /\ UNCHANGED <<filterVars, cmpVars, pathVars, mainVars, segVars,
                   dw_pc, repo_chunks, commit_freq, count, tmp_dir, cleanups, repos_out_hist, ar>>

\* process_repo line 166, and the return.
WRmtree(i) ==
    /\ workers[i].pc = "rmtree"
    /\ tmp_dir' = [tmp_dir EXCEPT !.dirs[workers[i].repo_dir] = <<>>]
    /\ workers' = [workers EXCEPT ![i].pc = "done"]
    /\ UNCHANGED <<filterVars, cmpVars, pathVars, mainVars, segVars,
                   dw_pc, repo_chunks, commit_freq, count, cleanups, repos_out_hist, ar>>

\* Lines 236-239: an exception inside the try; the task returns None and
\* leaves what it cloned.
WRaise(i) ==
    /\ workers[i].pc \in {"clone", "walk"}
    /\ workers' = [workers EXCEPT ![i].pc = "done", ![i].out = [none |-> TRUE, files |-> <<>>]]
    /\ UNCHANGED <<filterVars, cmpVars, pathVars, mainVars, segVars,
                   dw_pc, repo_chunks, commit_freq, count, tmp_dir, cleanups, repos_out_hist, ar>>

\* The files of the results that are not None, in the order of the results.
AddedBy(repos_out) ==
    Flatten([i \in 1..Len(repos_out) |->
                IF repos_out[i].none THEN <<>> ELSE repos_out[i].files])

\* do_work lines 36-60 for a chunk with results: the files are added, the
\* cleanup shell is launched and not waited for, and the archive is committed
\* when count is a multiple of commit_freq.
DwFinishChunk ==
    /\ dw_pc = "starmap"
    /\ Len(workers) > 0
    /\ \A i \in 1..Len(workers) : workers[i].pc = "done"
    /\ LET repos_out == [i \in 1..Len(workers) |-> workers[i].out]
           added == ar.added \o AddedBy(repos_out)
       IN  /\ ar' = [added |-> added,
                     committed |-> IF count % commit_freq = 0 THEN Len(added) ELSE ar.committed]
           /\ repos_out_hist' = Append(repos_out_hist, repos_out)
    /\ cleanups' = Append(cleanups, "rm")
    /\ count' = count + 1
    /\ workers' = <<>>
    /\ dw_pc' = "loop"
    /\ UNCHANGED <<filterVars, cmpVars, pathVars, mainVars, segVars,
                   repo_chunks, commit_freq, tmp_dir>>

\* do_work lines 36-58 for an empty chunk: non_empty_repo_cnt / len(repos_out)
\* raises ZeroDivisionError and do_work is left.
DwFinishChunkRaise ==
    /\ dw_pc = "starmap"
    /\ Len(workers) = 0
    /\ ar' = [ar EXCEPT !.committed = IF count % commit_freq = 0 THEN Len(ar.added) ELSE @]
    /\ repos_out_hist' = Append(repos_out_hist, <<>>)
    /\ cleanups' = Append(cleanups, "rm")
    /\ dw_pc' = "raised"
    /\ UNCHANGED <<filterVars, cmpVars, pathVars, mainVars, segVars,
                   repo_chunks, commit_freq, count, workers, tmp_dir>>

\* do_work line 61: the commit after the loop.
DwReturn ==
    /\ dw_pc = "loop"
    /\ count = Len(repo_chunks)
    /\ ar' = [ar EXCEPT !.committed = Len(ar.added)]
    /\ dw_pc' = "done"
    /\ UNCHANGED <<filterVars, cmpVars, pathVars, mainVars, segVars,
                   repo_chunks, commit_freq, count, workers, tmp_dir, cleanups, repos_out_hist>>

\* The shell launched after chunk c runs rm -rfv _tmp_dir.
CleanRm(c) ==
    /\ cleanups[c] = "rm"
    /\ tmp_dir' = EmptyTmp(FALSE)
    /\ cleanups' = [cleanups EXCEPT ![c] = "mkdir"]
    /\ UNCHANGED <<filterVars, cmpVars, pathVars, mainVars, segVars,
                   dw_pc, repo_chunks, commit_freq, count, workers, repos_out_hist, ar>>

\* The shell launched after chunk c runs mkdir _tmp_dir and ends.
CleanMkdir(c) ==
    /\ cleanups[c] = "mkdir"
    /\ tmp_dir' = [tmp_dir EXCEPT !.exists = TRUE]
    /\ cleanups' = [cleanups EXCEPT ![c] = "done"]
    /\ UNCHANGED <<filterVars, cmpVars, pathVars, mainVars, segVars,
                   dw_pc, repo_chunks, commit_freq, count, workers, repos_out_hist, ar>>

DwNext ==
    \/ DwStarmap
    \/ \E i \in 1..Len(workers) : WMakeDirs(i)
    \/ \E i \in 1..Len(workers) : WClone(i)
    \/ \E i \in 1..Len(workers) : WWalk(i)
    \/ \E i \in 1..Len(workers) : WRmtree(i)
    \/ \E i \in 1..Len(workers) : WRaise(i)
    \/ DwFinishChunk
    \/ DwFinishChunkRaise
    \/ DwReturn
    \/ \E c \in 1..Len(cleanups) : CleanRm(c)
    \/ \E c \in 1..Len(cleanups) : CleanMkdir(c)

DoWorkSpec == DwInit /\ [][DwNext]_vars

----------------------------------------------------------------------------
\* What the properties are stated about

\* The table as loaded, before any stage.
Input == open_pq_as_df(pq_file, is_slim)

InputRow(i) == Input[i + 1]

Labels(df) == {df[k].idx : k \in 1..Len(df)}

Occurrences(df, i) == Cardinality({k \in 1..Len(df) : df[k].idx = i})

\* The seven stage predicates as the specification's table states them.
Pass1(r, c) == c.min_max_ll <= r.max_ll /\ r.max_ll <= c.max_ll
Pass2(r, c) == r.file_size >= c.min_len
Pass3(r, c) == r.file_size <= c.max_size_kbs * 1024
Pass4(r, c) == c.min_alphanum < r.alphanum_frac /\ r.alphanum_frac < c.max_alphanum
Pass5(r, c) == r.ave_ll > c.min_ave_ll
Pass6(r, c) == r.ave_ll # 0 /\ flag_min_lines(r, c)
Pass7(r, c) == ast_parse(r.content) = "ok"

PassesAll(r, c) ==
    Pass1(r, c) /\ Pass2(r, c) /\ Pass3(r, c) /\ Pass4(r, c) /\ Pass5(r, c)
    /\ Pass6(r, c) /\ Pass7(r, c)

\* Reason tag of the earliest stage whose predicate the row fails.
FirstFailure(r, c) ==
    IF ~Pass1(r, c) THEN "max_ll"
    ELSE IF ~Pass2(r, c) THEN "file_too_small"
    ELSE IF ~Pass3(r, c) THEN "file_too_large"
    ELSE IF ~Pass4(r, c) THEN "alphanum_frac"
    ELSE IF ~Pass5(r, c) THEN "ave_ll"
    ELSE IF ~Pass6(r, c) THEN "min_lines"
    ELSE IF ~Pass7(r, c) THEN "python2"
    ELSE "none"

\* The row with label i is in the rejection frame with this reason.
RejectedAs(i, tag) == \E k \in 1..Len(reject_df) : reject_df[k].idx = i /\ reject_df[k].reason = tag

----------------------------------------------------------------------------
\* C1 - Partition: once all seven stages have run, every input row is in
\* exactly one of the kept table and the rejected table.
C1_Partition ==
    pc = "done" =>
        /\ Labels(_df) \cup Labels(reject_df) = Labels(Input)
        /\ Labels(_df) \cap Labels(reject_df) = {}

\* C2 - The kept table contains a row if and only if the row satisfies all
\* seven stage predicates.
C2_KeptIffAllSeven ==
    pc = "done" =>
        \A i \in Labels(Input) : (i \in Labels(_df)) <=> PassesAll(InputRow(i), cfg)

\* C3 - Every input row failing some stage predicate is in the rejected table
\* exactly once, and no row passing all stages is in it.
C3_RejectedExactlyOnce ==
    pc = "done" =>
        \A i \in Labels(Input) :
            Occurrences(reject_df, i) = IF PassesAll(InputRow(i), cfg) THEN 0 ELSE 1

\* C4 - First-failure tagging: every rejected row carries the tag of the
\* earliest stage it fails, and a row failing both stage 1 and stage 4 is
\* tagged max_ll.
C4_FirstFailureTag ==
    pc = "done" =>
        /\ \A k \in 1..Len(reject_df) :
              reject_df[k].reason = FirstFailure(InputRow(reject_df[k].idx), cfg)
        /\ \A i \in Labels(Input) :
              (~Pass1(InputRow(i), cfg) /\ ~Pass4(InputRow(i), cfg)) =>
                  (RejectedAs(i, "max_ll") /\ ~RejectedAs(i, "alphanum_frac"))

\* C5 - Stage 7 keeps exactly the stage-6 survivors whose content parses; the
\* survivors whose content does not parse are rejected with reason python2.
\* (After step 8 the mask filter_flag is indexed by the stage-6 survivors.)
C5_Stage7KeepsParsing ==
    pc = "step9" =>
        \A i \in DOMAIN filter_flag :
            /\ (i \in Labels(_df)) <=> Pass7(InputRow(i), cfg)
            /\ ~Pass7(InputRow(i), cfg) => RejectedAs(i, "python2")

\* The rejection frame holds no row in any reachable state: each stage selects
\* its rejected rows from the frame that was already filtered by the same mask.
\* Statements about the order or the tags of rejected rows (C4, C6) are
\* therefore true of no row.
RejectionFrameEmpty == reject_df = <<>>

\* C7 - Stage 3: a row reaching stage 3 passes if and only if its size in
\* bytes is at most max_size_kbs * 1024, and a larger row is rejected with
\* reason file_too_large.  (After step 4 the mask is indexed by the rows that
\* reached stage 3.)
C7_Stage3Bytes ==
    pc = "step5" =>
        \A i \in DOMAIN filter_flag :
            /\ (i \in Labels(_df)) <=> Pass3(InputRow(i), cfg)
            /\ ~Pass3(InputRow(i), cfg) => RejectedAs(i, "file_too_large")

\* C8 - Zero divisor: a row with ave_ll = 0 that stage 6 evaluates fails the
\* stage and is rejected with reason min_lines, and the pipeline is not
\* aborted by an arithmetic fault.
C8_ZeroDivisorFails ==
    pc = "step8" =>
        \A i \in DOMAIN filter_flag :
            InputRow(i).ave_ll = 0 =>
                /\ i \notin Labels(_df)
                /\ RejectedAs(i, "min_lines")
                /\ exc = NoExc

\* C9 - The syntax-compatibility check never raises: whatever the parser
\* does, no exception leaves test_source_code_compatible.
C9_CheckNeverRaises == exc.origin # "test_source_code_compatible"

\* C10 - Threshold boundaries: a row with max_ll equal to the upper or the
\* lower bound passes stage 1, and a row reaching stage 5 with ave_ll equal to
\* min_ave_ll fails it and is rejected with reason ave_ll.
C10_ThresholdBoundaries ==
    /\ pc = "step3" =>
          \A i \in DOMAIN filter_flag :
              InputRow(i).max_ll \in {cfg.max_ll, cfg.min_max_ll} => i \in Labels(_df)
    /\ pc = "step7" =>
          \A i \in DOMAIN filter_flag :
              InputRow(i).ave_ll = cfg.min_ave_ll =>
                  (i \notin Labels(_df) /\ RejectedAs(i, "ave_ll"))

\* C11 - A row that passes stage 1 and has file_size < min_len ends up in the
\* rejected table with reason file_too_small, and not in kept.
C11_TooSmallRejected ==
    pc = "done" =>
        \A i \in Labels(Input) :
            (Pass1(InputRow(i), cfg) /\ InputRow(i).file_size < cfg.min_len) =>
                (i \notin Labels(_df) /\ RejectedAs(i, "file_too_small"))

C13_NoPartialOutput ==
    pc = "raised" => (Len(dest_pq) = run - 1 /\ Len(rejects_pq) = run - 1)

\* The presets' numeric stages 1-6, evaluated on one row as the code does.
NumericStagesPass(r, c) == \A k \in 1..6 : StageFlag(StageTags[k], r, c)

\* C14 - The presets are ordered from loosest to strictest: a row passing the
\* numeric stages under aggressive passes them under moderate, and one passing
\* under moderate passes under permissive; hence
\* kept(aggressive) is a subset of kept(moderate), itself one of kept(permissive).
C14_PresetsNested ==
    cmp_pc = "compared" =>
        /\ \A k \in 1..Len(cmp_table) :
              /\ NumericStagesPass(cmp_table[k], AggressiveFilterConfig)
                    => NumericStagesPass(cmp_table[k], ModerateFilterConfig)
              /\ NumericStagesPass(cmp_table[k], ModerateFilterConfig)
                    => NumericStagesPass(cmp_table[k], PermissiveFilterConfig)
        /\ Labels(cmp_out["aggressive"].kept) \subseteq Labels(cmp_out["moderate"].kept)
        /\ Labels(cmp_out["moderate"].kept) \subseteq Labels(cmp_out["permissive"].kept)

ThresholdNames ==
    {"max_ll", "min_len", "min_max_ll", "max_size_kbs", "min_alphanum", "max_alphanum",
     "min_ave_ll", "min_lines"}

\* C15 as stated - a call without threshold arguments is equivalent to a call
\* with the moderate preset: the eight defaults equal the moderate values and
\* both calls yield the same split of every table.
C15_DefaultsAreModerate ==
    cmp_pc = "compared" =>
        /\ \A f \in ThresholdNames : DefaultArgs[f] = ModerateFilterConfig[f]
        /\ cmp_out["default"] = cmp_out["moderate"]

\* The table has a row between the two size limits: more than 750 KB and at
\* most 1000 KB, in whole kilobytes.
HasRowBetweenSizeLimits ==
    \E k \in 1..Len(cmp_table) :
        /\ cmp_table[k].file_size \div 1024 > ModerateFilterConfig.max_size_kbs
        /\ cmp_table[k].file_size \div 1024 <= DefaultArgs.max_size_kbs

\* C15 as amended - the defaults equal the moderate values except for
\* max_size_kbs, and both calls yield the same split of every table that has
\* no row between the two size limits.
C15_DefaultsAreModerateButSize ==
    cmp_pc = "compared" =>
        /\ \A f \in ThresholdNames \ {"max_size_kbs"} : DefaultArgs[f] = ModerateFilterConfig[f]
        /\ ~HasRowBetweenSizeLimits => cmp_out["default"] = cmp_out["moderate"]

\* Both calls completed on a table without a row between the size limits,
\* kept one of its rows and dropped another.
C15_Witness ==
    /\ cmp_pc = "compared"
    /\ ~HasRowBetweenSizeLimits
    /\ ~cmp_out["default"].raised
    /\ Len(cmp_out["default"].kept) = 1
    /\ Len(cmp_table) = 2

\* C16 - Lifecycle: in one call the table is loaded exactly once before any
\* stage runs, no file is written between the load and the end of stage 7,
\* and once the call has returned the kept file and the rejects file have
\* each been written exactly once by it.
C16_Lifecycle ==
    /\ pc \in StageSteps \cup {"step9"} =>
          (loads = 1 /\ Len(dest_pq) = run - 1 /\ Len(rejects_pq) = run - 1)
    /\ pc = "done" =>
          (loads = 1 /\ Len(dest_pq) = run /\ Len(rejects_pq) = run)

\* A call on a table with rows has returned.
C16_Witness ==
    /\ pc = "done"
    /\ run = 1
    /\ Len(pq_file) > 0
    /\ Len(dest_pq) = 1 /\ Len(rejects_pq) = 1

\* C17 - Output path derivation: for the input path
\* <root>/<origin_dir>/<lang>/<file> the kept path is exactly
\* <root>/<basename of output_dir>/<lang>/<file>.
C17_OnlyOriginReplaced ==
    \A w \in 1..Len(derived) :
        derived[w] # <<>> =>
            LET parts == rsplit(pq_paths[w], 3)
                out_name == rsplit(output_dir, 1)[Len(rsplit(output_dir, 1))]
            IN  derived[w][1].dest =
                    path_join(path_join(path_join(parts[1], out_name), parts[3]), parts[4])

\* C18 - Disjoint outputs: for two distinct table paths and one output
\* directory, neither the kept path nor the rejects path of one worker is the
\* kept path, the rejects path or the table path of the other.
C18_DisjointOutputs ==
    \A v \in 1..Len(derived), w \in 1..Len(derived) :
        (v # w /\ derived[v] # <<>> /\ derived[w] # <<>>) =>
            {derived[v][1].dest, derived[v][1].rejects}
                \cap {derived[w][1].dest, derived[w][1].rejects, pq_paths[w]} = {}

\* The tables that remain after language filtering.
Remaining == {filtered_meta_df[i].pq_path : i \in 1..Len(filtered_meta_df)}

\* The writes of the kept output of table x.
KeptWrites(x) == {k \in 1..Len(writes) : writes[k].table = x /\ writes[k].kind = "kept"}

\* C19 - curate main: each table that remains after language filtering is
\* processed exactly once, filtered_meta.csv is written only after all of
\* them are, and it has exactly one row per such table, whose
\* filtered_pq_path is the path at which that table's kept output was written.
C19_EachOnceThenCsv ==
    /\ \A k \in 1..Len(writes) : writes[k].table \in Remaining
    /\ \A x \in Remaining : Cardinality(KeptWrites(x)) <= 1
    /\ Len(csv) <= 1
    /\ csv # <<>> =>
           /\ Len(csv[1]) = Len(filtered_meta_df)
           /\ \A i \in 1..Len(filtered_meta_df) :
                  /\ csv[1][i].pq_path = filtered_meta_df[i].pq_path
                  /\ Cardinality(KeptWrites(csv[1][i].pq_path)) = 1
                  /\ \A k \in KeptWrites(csv[1][i].pq_path) :
                         writes[k].file = csv[1][i].filtered_pq_path
           /\ \A i \in 1..Len(csv[1]), j \in 1..Len(csv[1]) :
                  csv[1][i].pq_path = csv[1][j].pq_path => i = j

\* C19's case: filtered_meta.csv is written for two tables or more.
C19_Witness == m_pc = "done" /\ csv # <<>> /\ Len(csv[1]) >= 2

\* The sets of top_k languages by size.
TopBySize(meta, top_k) ==
    {T \in SUBSET LangsOf(meta) :
        /\ Cardinality(T) = IF top_k < Cardinality(LangsOf(meta))
                            THEN top_k ELSE Cardinality(LangsOf(meta))
        /\ \A a \in T, b \in LangsOf(meta) \ T :
               LET sa == CHOOSE i \in 1..Len(meta) : meta[i].lang = a
                   sb == CHOOSE i \in 1..Len(meta) : meta[i].lang = b
               IN  meta[sa].lang_size_mb >= meta[sb].lang_size_mb}

\* The results the stated precedence allows.
Precedence(meta, a) ==
    LET Good(df) == SelectSeq(df, LAMBDA r : r.lang \notin bad_langs)
    IN  IF a.top_k # None
        THEN {Good(SelectSeq(meta, LAMBDA r : r.lang \in T)) : T \in TopBySize(meta, a.top_k[1])}
        ELSE IF a.mb_size_thresh # None
        THEN {Good(SelectSeq(meta, LAMBDA r : r.lang_size_mb > a.mb_size_thresh[1]))}
        ELSE IF a.pq_file_cnt_thresh # None
        THEN {Good(SelectSeq(meta, LAMBDA r : r.lang_file_cnt >= a.pq_file_cnt_thresh[1]))}
        ELSE {Good(meta)}

\* C20 - filter_meta_languages applies one criterion by precedence: a
\* specified top_k keeps only the top_k languages by size, otherwise a
\* specified mb_size_thresh applies, otherwise pq_file_cnt_thresh; and the
\* languages in bad_langs are excluded in every case.
C20_Precedence ==
    m_pc = "apply" => filtered_meta_df \in Precedence(meta_df, _args)

\* The stage predicate of stage k, as the specification's table states it.
PassStage(k, r, c) ==
    CASE k = 1 -> Pass1(r, c)
      [] k = 2 -> Pass2(r, c)
      [] k = 3 -> Pass3(r, c)
      [] k = 4 -> Pass4(r, c)
      [] k = 5 -> Pass5(r, c)
      [] k = 6 -> Pass6(r, c)
      [] k = 7 -> Pass7(r, c)

\* The number of stages completed at a position of the call.
StagesDone(here) ==
    CASE here = "step3" -> 1
      [] here = "step4" -> 2
      [] here = "step5" -> 3
      [] here = "step6" -> 4
      [] here = "step7" -> 5
      [] here = "step8" -> 6
      [] here \in {"step9", "step9.5", "done"} -> 7

\* The input rows that pass stages 1..k.
Survivors(k) == {i \in Labels(Input) : \A j \in 1..k : PassStage(j, InputRow(i), cfg)}

\* C21 - Stepwise funnel: after stage k the survivor set is exactly the input
\* rows that pass stages 1..k, the rejection ledger is exactly the input rows
\* that failed some stage j <= k, each once and tagged with the reason of the
\* first stage it failed, and stage k evaluated no row rejected before it.
C21_StepwiseFunnel ==
    pc \in {"step3", "step4", "step5", "step6", "step7", "step8", "step9", "step9.5", "done"} =>
        LET k == StagesDone(pc)
        IN  /\ Labels(_df) = Survivors(k)
            /\ Labels(reject_df) = Labels(Input) \ Survivors(k)
            /\ \A i \in Labels(Input) \ Survivors(k) :
                   /\ Occurrences(reject_df, i) = 1
                   /\ \E j \in 1..k :
                          /\ ~PassStage(j, InputRow(i), cfg)
                          /\ \A h \in 1..(j - 1) : PassStage(h, InputRow(i), cfg)
                          /\ RejectedAs(i, StageTags[j])
            /\ DOMAIN filter_flag = Survivors(k - 1)

RowFields == {"file_size", "max_ll", "ave_ll", "alphanum_frac", "content"}

\* The file written last to the destination path.
KeptFile == dest_pq[Len(dest_pq)]

\* C27 - Frame property of the kept table: the rows written to it are rows
\* of the loaded input, field for field and with no further field, in the
\* input's relative order.
C27_KeptIsSubsequence ==
    dest_pq # <<>> =>
        \E f \in [1..Len(KeptFile) -> 1..Len(Input)] :
            /\ \A k \in 1..Len(KeptFile) :
                   /\ DOMAIN KeptFile[k] = RowFields
                   /\ \A col \in RowFields : KeptFile[k][col] = Input[f[k]][col]
            /\ \A j \in 1..Len(KeptFile), k \in 1..Len(KeptFile) : j < k => f[j] < f[k]

\* C27's case: a kept table of at least one row was written from an input from
\* which an earlier row was dropped.
C27_Witness ==
    /\ pc = "done"
    /\ dest_pq # <<>>
    /\ Len(KeptFile) >= 1
    /\ Len(KeptFile) < Len(Input)
    /\ KeptFile[1].file_size # Input[1].file_size

\* C26 - Segment coverage: with frac = 1/k, the segments seg_num = 1..k are
\* disjoint contiguous slices whose union is the whole list: one after the
\* other they are the list, each repository once.
C26_SegmentsCoverList ==
    Len(seg_out) = seg_k /\ seg_k >= 1 => Flatten(seg_out) = repo_names

\* C23 - Cleanup before the next chunk: when a task of a chunk has made the
\* temporary directory or is cloning or walking in it, every cleanup
\* launched after an earlier chunk has completed; and a repository directory
\* that a task cloned, and shares with no other task, is there when the task
\* walks it.
C23_CleanupBeforeNextChunk ==
    \A i \in 1..Len(workers) :
        /\ workers[i].pc \in {"clone", "walk", "rmtree"} =>
               \A c \in 1..Len(cleanups) : cleanups[c] = "done"
        /\ (/\ workers[i].pc = "walk"
            /\ workers[i].cloned
            /\ \A j \in 1..Len(workers) :
                   j # i => repo_dir_of(workers[j].repo) # workers[i].repo_dir) =>
               tmp_dir.dirs[workers[i].repo_dir] = workers[i].repo

\* C24 - Tasks of one chunk never share a working directory: the clone
\* directories derived for two distinct repository names are distinct.
C24_DistinctCloneDirs ==
    \A i \in 1..Len(workers), j \in 1..Len(workers) :
        (/\ workers[i].repo # workers[j].repo
         /\ workers[i].repo_dir # <<>>
         /\ workers[j].repo_dir # <<>>) =>
            workers[i].repo_dir # workers[j].repo_dir

\* C25 - do_work adds every file of every result that is not None exactly
\* once and in chunk order, has committed after the last add when it returns,
\* and is not stopped before the last chunk.
C25_AllAddedAndCommitted ==
    /\ dw_pc # "raised"
    /\ ar.added = Flatten([c \in 1..Len(repos_out_hist) |-> AddedBy(repos_out_hist[c])])
    /\ dw_pc = "done" =>
           /\ Len(repos_out_hist) = Len(repo_chunks)
           /\ ar.committed = Len(ar.added)

====
